---- MODULE Spec2Model ----
(***************************************************************************)
(* The recording protocol of the feed_filter browser extension: the popup  *)
(* (control surface), the background service worker (session coordinator)  *)
(* and the offscreen document (capture worker).  Every await of the source *)
(* is a suspension point: a call is a record whose pc names the request it *)
(* is waiting for, and the host answers outstanding requests in any order. *)
(***************************************************************************)
EXTENDS Integers, Sequences, FiniteSets, TLC

\* ------------------------------------------------------------------ bounds
MaxCalls == 2        \* commands the popup may have outstanding at once
MaxStreams == 2      \* streams one offscreen document acquires in its life
MaxChunks == 1       \* non-empty chunks one recorder produces
SerialChunks == 2    \* the same, when the commands are serialized
MaxTicks == 1        \* clock ticks
TickMs == 1500       \* milliseconds per clock tick
StartClock == 1000   \* Date.now() when the service worker starts

\* --------------------------------------------------------------- constants
Null == -1
MsPerSecond == 1000

Slots == 1..MaxCalls
Tabs == {1, 2}
BackendUrls == {"http://backend"}
\* message.backendUrl of a stopRecording message that carries none.
Missing == "undefined"
\* What the fetch of uploadRecording can come to.
UploadOutcomes == {"ok", "status", "network", "json"}
\* The JSON bodies the backend answers a successful upload with.
Bodies == {[filename |-> "recording.webm", size |-> 1],
           [success |-> FALSE, message |-> "queued"]}
StreamIds == 1..MaxStreams

\* ------------------------------------------------------------------- state
VARIABLES
    isRecording,      \* background.js: let isRecording
    recordingTabId,   \* background.js: let recordingTabId
    startTime,        \* background.js: let startTime
    badgeText,        \* chrome.action badge text
    docExists,        \* an OFFSCREEN_DOCUMENT context exists
    mediaRecorder,    \* offscreen.js: let mediaRecorder (a stream id or Null)
    mediaStream,      \* offscreen.js: let mediaStream (a stream id or Null)
    recordedChunks,   \* offscreen.js: let recordedChunks
    streams,          \* the streams and recorders the document has created
    calls,            \* the startRecording/stopRecording calls in flight
    shown,            \* what the popup displays: "idle" or "recording"
    now,              \* Date.now()
    notices,          \* the downloadFallback messages sent and not yet delivered
    downloads,        \* the local references a context has saved to a file
    okSinceStop       \* history: a startRecording issued after the last
                      \* stopRecording message has returned success

vars == <<isRecording, recordingTabId, startTime, badgeText, docExists,
          mediaRecorder, mediaStream, recordedChunks, streams, calls, shown,
          now, okSinceStop, notices, downloads>>

session == <<isRecording, recordingTabId, startTime, badgeText>>
worker == <<mediaRecorder, mediaStream, recordedChunks, streams>>
fallbacks == <<notices, downloads>>

\* ---------------------------------------------------------------- results
NoResult == [defined |-> FALSE, success |-> FALSE, error |-> "",
             savedLocally |-> FALSE, filename |-> ""]

Fail(e) == [defined |-> TRUE, success |-> FALSE, error |-> e,
            savedLocally |-> FALSE, filename |-> ""]

Success(fn) == [defined |-> TRUE, success |-> TRUE, error |-> "",
                savedLocally |-> FALSE, filename |-> fn]

SavedLocally(e) == [defined |-> TRUE, success |-> FALSE, error |-> e,
                    savedLocally |-> TRUE, filename |-> ""]

AlreadyActive == Fail("Already recording")
NotActive == Fail("Not recording")
NotCapturing == Fail("No active recording")

MessageFault == Fail("Could not establish connection")

FreeCall == [pc |-> "free", kind |-> "none", tabId |-> Null, backendUrl |-> "",
             resp |-> NoResult, result |-> NoResult, blob |-> <<>>,
             fallback |-> 0, orphan |-> FALSE, preStop |-> FALSE,
             rec |-> 0]

\* produced: the bytes the recorder of the stream has handed to
\* ondataavailable so far, in order (history).  stops: how many times the
\* tracks of the stream were stopped (history).
FreeStream == [acquired |-> FALSE, live |-> FALSE, rec |-> "none", onstop |-> 0,
               produced |-> <<>>, stops |-> 0]

\* The pcs at which a call is being served inside the offscreen document.
WorkerPcs == {"getUserMedia", "onstop", "upload", "hung"}

\* ------------------------------------------------------------- operators
\* getStatus: the response object of the listener.
Elapsed == IF startTime # Null /\ startTime # 0
           THEN (now - startTime) \div MsPerSecond
           ELSE 0

GetStatus == [isRecording |-> isRecording, recordingTabId |-> recordingTabId,
              startTime |-> startTime, elapsed |-> Elapsed]

\* startRecording, lines 58-64: the Session becomes Recording.
SetRecording(tabId) ==
    /\ isRecording' = TRUE
    /\ recordingTabId' = tabId
    /\ startTime' = now
    /\ badgeText' = "REC"

\* ClearRecording with the reset of startTime left out.
ClearRecordingKeepsStartTime ==
    /\ isRecording' = FALSE
    /\ recordingTabId' = Null
    /\ startTime' = startTime
    /\ badgeText' = ""

\* stopRecording, lines 86-91: the Session becomes Idle.
ClearRecording ==
    /\ isRecording' = FALSE
    /\ recordingTabId' = Null
    /\ startTime' = Null
    /\ badgeText' = ""

\* The state of a newly loaded offscreen document (also the value the model
\* gives these variables while no document exists).
FreshWorker ==
    /\ mediaRecorder' = Null
    /\ mediaStream' = Null
    /\ recordedChunks' = <<>>
    /\ streams' = [s \in StreamIds |-> FreeStream]

Return(c, r) == [calls[c] EXCEPT !.pc = "done", !.result = r]

LowestFree(c) == /\ calls[c].pc = "free"
                 /\ \A d \in Slots : d < c => calls[d].pc # "free"

\* ------------------------------------------------- popup (control surface)
\* The popup is opened (again): checkStatus renders what getStatus reports.
\* The click handlers of the popup it replaces died with that popup; the
\* commands they sent stay in flight and their responses reach nobody.
CheckStatus ==
    /\ shown' = IF GetStatus.isRecording THEN "recording" ELSE "idle"
    /\ calls' = [c \in Slots |->
                   IF calls[c].pc = "free" THEN calls[c]
                   ELSE [calls[c] EXCEPT !.orphan = TRUE]]
    /\ UNCHANGED <<session, docExists, worker, now, okSinceStop, fallbacks>>

\* The click handler resumes with the response of its command.
HandleResponse(c) ==
    /\ calls[c].pc = "done"
    /\ calls' = [calls EXCEPT ![c] = FreeCall]
    /\ shown' = IF calls[c].orphan THEN shown
                ELSE IF calls[c].kind = "stop" THEN "idle"
                ELSE IF calls[c].result.success THEN "recording"
                ELSE shown
    /\ UNCHANGED <<session, docExists, worker, now, okSinceStop, fallbacks>>

\* ------------------------------------------ background.js (coordinator)
\* The guard of startRecording (line 37), and the guard left out.
AlreadyRecordingNever == FALSE

AlreadyRecording == isRecording

\* The guard of stopRecording (line 75), and the guard left out.
NotRecordingNever == FALSE

NotRecording == ~isRecording

\* The start button is clicked; the listener runs startRecording up to its
\* first await.
StartRecording(c, tabId) ==
    /\ LowestFree(c)
    /\ shown = "idle"
    /\ LET call == [FreeCall EXCEPT !.kind = "start", !.tabId = tabId] IN
         calls' = [calls EXCEPT ![c] =
                     IF AlreadyRecording
                     THEN [call EXCEPT !.pc = "done", !.result = AlreadyActive]
                     ELSE [call EXCEPT !.pc = "getStreamId"]]
    /\ UNCHANGED <<session, docExists, worker, shown, now, okSinceStop, fallbacks>>

\* chrome.tabCapture.getMediaStreamId settles.
GetMediaStreamId(c, ok) ==
    /\ calls[c].pc = "getStreamId"
    /\ calls' = [calls EXCEPT ![c] =
                   IF ok THEN [@ EXCEPT !.pc = "getContexts"]
                   ELSE Return(c, Fail("Error starting tab capture"))]
    /\ UNCHANGED <<session, docExists, worker, shown, now, okSinceStop, fallbacks>>

\* createOffscreenDocument, lines 104-110: getContexts settles.
CreateOffscreenDocument(c) ==
    /\ calls[c].pc = "getContexts"
    /\ calls[c].kind = "start"
    /\ calls' = [calls EXCEPT ![c].pc =
                   IF docExists THEN "startCapture" ELSE "createDocument"]
    /\ UNCHANGED <<session, docExists, worker, shown, now, okSinceStop, fallbacks>>

\* closeOffscreenDocument, lines 120-124: getContexts settles.
CloseOffscreenDocument(c) ==
    /\ calls[c].pc = "getContexts"
    /\ calls[c].kind = "stop"
    /\ calls' = [calls EXCEPT ![c] =
                   IF docExists THEN [@ EXCEPT !.pc = "closeDocument"]
                   ELSE Return(c, calls[c].resp)]
    /\ UNCHANGED <<session, docExists, worker, shown, now, okSinceStop, fallbacks>>

\* chrome.offscreen.createDocument settles: the host keeps at most one
\* offscreen document and rejects the request when one exists.
CreateDocument(c) ==
    /\ calls[c].pc = "createDocument"
    /\ IF docExists
       THEN /\ calls' = [calls EXCEPT ![c] =
                           Return(c, Fail("Only a single offscreen document may be created"))]
            /\ UNCHANGED <<docExists, worker>>
       ELSE /\ docExists' = TRUE
            /\ FreshWorker
            /\ calls' = [calls EXCEPT ![c].pc = "startCapture"]
    /\ UNCHANGED <<session, shown, now, okSinceStop, fallbacks>>

\* The response of startCapture arrives: lines 57-67.
StartResponse(c) ==
    /\ calls[c].pc = "response"
    /\ calls[c].kind = "start"
    /\ IF calls[c].resp.success
       THEN /\ SetRecording(calls[c].tabId)
            /\ okSinceStop' = (okSinceStop \/ ~calls[c].preStop)
       ELSE UNCHANGED <<session, okSinceStop>>
    /\ calls' = [calls EXCEPT ![c] = Return(c, calls[c].resp)]
    /\ UNCHANGED <<docExists, worker, shown, now, fallbacks>>

\* The stop button is clicked; the listener runs stopRecording up to its
\* first await.
StopRecording(c, url) ==
    /\ LowestFree(c)
    /\ shown = "recording"
    /\ LET call == [FreeCall EXCEPT !.kind = "stop", !.backendUrl = url]
           marked == [d \in Slots |->
                        IF calls[d].kind = "start"
                        THEN [calls[d] EXCEPT !.preStop = TRUE]
                        ELSE calls[d]]
       IN calls' = [marked EXCEPT ![c] =
                      IF NotRecording
                      THEN [call EXCEPT !.pc = "done", !.result = NotActive]
                      ELSE [call EXCEPT !.pc = "stopCapture"]]
    /\ okSinceStop' = FALSE
    /\ UNCHANGED <<session, docExists, worker, shown, now, fallbacks>>

\* The response of stopCapture arrives: lines 86-94, up to the await inside
\* closeOffscreenDocument.
StopResponse(c) ==
    /\ calls[c].pc = "response"
    /\ calls[c].kind = "stop"
    /\ ClearRecording
    /\ calls' = [calls EXCEPT ![c].pc = "getContexts"]
    /\ UNCHANGED <<docExists, worker, shown, now, okSinceStop, fallbacks>>

\* The calls the offscreen document was serving lose their message channel
\* when the document is destroyed.
ChannelsClosed(cs) ==
    [d \in Slots |-> IF cs[d].pc \in WorkerPcs
                     THEN [cs[d] EXCEPT !.pc = "rejected"]
                     ELSE cs[d]]

\* chrome.offscreen.closeDocument settles: it rejects when there is no
\* document to close.
CloseDocument(c) ==
    /\ calls[c].pc = "closeDocument"
    /\ IF docExists
       THEN /\ docExists' = FALSE
            /\ FreshWorker
            /\ calls' = ChannelsClosed([calls EXCEPT ![c] = Return(c, calls[c].resp)])
       ELSE /\ calls' = [calls EXCEPT ![c] =
                           Return(c, Fail("No current offscreen document"))]
            /\ UNCHANGED <<docExists, worker>>
    /\ UNCHANGED <<session, shown, now, okSinceStop, fallbacks>>

\* chrome.runtime.sendMessage finds no listener for the message.
NoReceiver(c) ==
    /\ calls[c].pc \in {"startCapture", "stopCapture"}
    /\ ~docExists
    /\ calls' = [calls EXCEPT ![c].pc = "rejected"]
    /\ UNCHANGED <<session, docExists, worker, shown, now, okSinceStop, fallbacks>>

\* The awaited sendMessage rejects: the catch block of startRecording
\* (lines 68-71) or of stopRecording (lines 97-100).
SendRejected(c) ==
    /\ calls[c].pc = "rejected"
    /\ calls' = [calls EXCEPT ![c] = Return(c, MessageFault)]
    /\ UNCHANGED <<session, docExists, worker, shown, now, okSinceStop, fallbacks>>

\* Date.now() advances.
Tick ==
    /\ now < StartClock + MaxTicks * TickMs
    /\ now' = now + TickMs
    /\ UNCHANGED <<session, docExists, worker, calls, shown, okSinceStop, fallbacks>>

\* ---------------------------------------------- offscreen.js (worker)
\* The stream id the next getUserMedia yields: the lowest one not yet used
\* by this document (0 when the model has none left).
NextStream == IF \E s \in StreamIds : ~streams[s].acquired
              THEN CHOOSE s \in StreamIds :
                     /\ ~streams[s].acquired
                     /\ \A t \in StreamIds : t < s => streams[t].acquired
              ELSE 0

\* The document's listener receives startCapture and awaits getUserMedia.
StartCapture(c) ==
    /\ calls[c].pc = "startCapture"
    /\ docExists
    /\ calls' = [calls EXCEPT ![c].pc = "getUserMedia"]
    /\ UNCHANGED <<session, docExists, worker, shown, now, okSinceStop, fallbacks>>

\* getUserMedia settles and startCapture runs to its return: lines 27-57.
\* outcome "denied": getUserMedia rejects; "unsupported": the MediaRecorder
\* constructor throws; "ok": the recorder starts.
GetUserMedia(c, outcome) ==
    /\ calls[c].pc = "getUserMedia"
    /\ docExists
    /\ IF outcome = "denied"
       THEN /\ calls' = [calls EXCEPT ![c].pc = "response",
                                      ![c].resp = Fail("Permission denied")]
            /\ UNCHANGED worker
       ELSE /\ NextStream # 0
            /\ mediaStream' = NextStream
            /\ recordedChunks' = <<>>
            /\ IF outcome = "ok"
               THEN /\ mediaRecorder' = NextStream
                    /\ streams' = [streams EXCEPT ![NextStream] =
                                     [acquired |-> TRUE, live |-> TRUE,
                                      rec |-> "recording", onstop |-> 0,
                                      produced |-> <<>>, stops |-> 0]]
                    /\ calls' = [calls EXCEPT ![c].pc = "response",
                                              ![c].resp = Success("")]
               ELSE /\ mediaRecorder' = mediaRecorder
                    /\ streams' = [streams EXCEPT ![NextStream] =
                                     [acquired |-> TRUE, live |-> TRUE,
                                      rec |-> "none", onstop |-> 0,
                                      produced |-> <<>>, stops |-> 0]]
                    /\ calls' = [calls EXCEPT ![c].pc = "response",
                                              ![c].resp = Fail("NotSupportedError")]
    /\ UNCHANGED <<session, docExists, shown, now, okSinceStop, fallbacks>>

\* The data of the next dataavailable event of recorder r: size bytes, each
\* byte naming the recorder and its place in what the recorder produced.
EventData(r, size) ==
    IF size = 0 THEN <<>> ELSE <<10 * r + Len(streams[r].produced) + 1>>

\* The model lets a recorder produce at most max non-empty chunks.
Room(r, size, max) == size = 0 \/ Len(streams[r].produced) < max

\* ondataavailable, lines 43-47: a chunk is kept when its size is not 0.
Pushed(chunks, data) ==
    IF Len(data) > 0 THEN Append(chunks, data) ELSE chunks

\* new Blob(recordedChunks), line 74: the chunks' bytes in order.
RECURSIVE Blob(_)
Blob(chunks) ==
    IF chunks = <<>> THEN <<>> ELSE Head(chunks) \o Blob(Tail(chunks))

\* The recorder r fires a periodic dataavailable (mediaRecorder.start(1000)).
DataAvailable(r, size) ==
    /\ docExists
    /\ streams[r].rec = "recording"
    /\ recordedChunks' = Pushed(recordedChunks, EventData(r, size))
    /\ streams' = [streams EXCEPT ![r].produced = @ \o EventData(r, size)]
    /\ UNCHANGED <<session, docExists, mediaRecorder, mediaStream,
                   calls, shown, now, okSinceStop, fallbacks>>

\* The guard of line 62 without its test of mediaRecorder.state.
NoActiveRecorderNullOnly == mediaRecorder = Null

\* The guard of stopCapture, line 62.
NoActiveRecorder ==
    \/ mediaRecorder = Null
    \/ streams[mediaRecorder].rec = "inactive"

\* The document's listener receives stopCapture: lines 61-83.
StopCapture(c) ==
    /\ calls[c].pc = "stopCapture"
    /\ docExists
    /\ IF NoActiveRecorder
       THEN /\ calls' = [calls EXCEPT ![c].pc = "response",
                                      ![c].resp = NotCapturing]
            /\ UNCHANGED worker
       ELSE /\ streams' = [streams EXCEPT ![mediaRecorder].rec = "inactive",
                                          ![mediaRecorder].onstop = c]
            /\ calls' = [calls EXCEPT ![c].pc = "onstop", ![c].rec = mediaRecorder]
            /\ UNCHANGED <<mediaRecorder, mediaStream, recordedChunks>>
    /\ UNCHANGED <<session, docExists, shown, now, okSinceStop, fallbacks>>

\* The recorder r fires its last dataavailable and then stop: the onstop
\* handler of lines 67-80 runs up to the fetch of uploadRecording (line 93).
\* backendUrl.replace of line 87 is outside the try of uploadRecording: with
\* no backendUrl it throws, the promise of the async handler rejects and
\* resolve (line 79) is never called.
OnStop(r, size) ==
    /\ docExists
    /\ streams[r].onstop # 0
    /\ LET c == streams[r].onstop
           chunks == Pushed(recordedChunks, EventData(r, size))
       IN /\ calls[c].pc = "onstop"
          /\ recordedChunks' = chunks
          /\ streams' = [s \in StreamIds |->
                           [streams[s] EXCEPT
                              !.onstop = IF s = r THEN 0 ELSE @,
                              !.produced = IF s = r THEN @ \o EventData(r, size) ELSE @,
                              !.live = IF s = mediaStream THEN FALSE ELSE @,
                              !.stops = IF s = mediaStream THEN @ + 1 ELSE @]]
          /\ calls' = [calls EXCEPT
                         ![c].pc = IF calls[c].backendUrl = Missing
                                   THEN "hung" ELSE "upload",
                         ![c].blob = Blob(chunks)]
    /\ UNCHANGED <<session, docExists, mediaRecorder, mediaStream, shown, now,
                   okSinceStop, fallbacks>>

\* Merge with the spread written first: { ...result, success: true }.
MergeBaseWins(base, body) ==
    [f \in DOMAIN base \cup DOMAIN body |->
       IF f \in DOMAIN base THEN base[f] ELSE body[f]]

\* { success: true, ...result }, line 104: the fields of the body are
\* spread over the object, a field of the body replacing one of the same name.
Merge(base, body) ==
    [f \in DOMAIN base \cup DOMAIN body |->
       IF f \in DOMAIN body THEN body[f] ELSE base[f]]

\* The message of lines 110-114: URL.createObjectURL names the blob of this
\* document, the filename is synthesized.
Notice == [action |-> "downloadFallback", url |-> "blob:offscreen",
           filename |-> "linkedin_recording.webm"]

\* The fetch of uploadRecording settles: lines 98-117.  outcome "ok": a
\* success status with the JSON body; "status": a non-success status;
\* "network": the transfer fails; "json": the body is not JSON.
UploadRecording(c, outcome, body) ==
    /\ calls[c].pc = "upload"
    /\ docExists
    /\ IF outcome = "ok"
       THEN /\ calls' = [calls EXCEPT ![c].pc = "response",
                                      ![c].resp = Merge(Success(""), body),
                                      ![c].blob = <<>>]
            /\ UNCHANGED notices
       ELSE /\ calls' = [calls EXCEPT ![c].pc = "response",
                                      ![c].resp = SavedLocally(outcome),
                                      ![c].fallback = @ + 1,
                                      ![c].blob = <<>>]
            /\ notices' = notices \cup {Notice}
    /\ UNCHANGED <<session, docExists, worker, shown, now, okSinceStop, downloads>>

\* The listener of background.js receives downloadFallback: no branch of
\* lines 8-31 matches and line 33 returns false.  The popup registers no
\* listener.  Nothing is saved.
DownloadFallback(n) ==
    /\ n \in notices
    /\ notices' = notices \ {n}
    /\ UNCHANGED <<session, docExists, worker, calls, shown, now, okSinceStop,
                   downloads>>

\* ------------------------------------------------------ specification
Init ==
    /\ isRecording = FALSE
    /\ recordingTabId = Null
    /\ startTime = Null
    /\ badgeText = ""
    /\ docExists = FALSE
    /\ mediaRecorder = Null
    /\ mediaStream = Null
    /\ recordedChunks = <<>>
    /\ streams = [s \in StreamIds |-> FreeStream]
    /\ calls = [c \in Slots |-> FreeCall]
    /\ shown = "idle"
    /\ now = StartClock
    /\ okSinceStop = FALSE
    /\ notices = {}
    /\ downloads = {}

Next ==
    \/ CheckStatus
    \/ Tick
    \/ \E c \in Slots :
         \/ HandleResponse(c)
         \/ \E tabId \in Tabs : StartRecording(c, tabId)
         \/ \E ok \in BOOLEAN : GetMediaStreamId(c, ok)
         \/ CreateOffscreenDocument(c)
         \/ CreateDocument(c)
         \/ StartResponse(c)
         \/ \E url \in BackendUrls : StopRecording(c, url)
         \/ StopResponse(c)
         \/ CloseOffscreenDocument(c)
         \/ CloseDocument(c)
         \/ NoReceiver(c)
         \/ SendRejected(c)
         \/ StartCapture(c)
         \/ \E outcome \in {"ok", "denied", "unsupported"} : GetUserMedia(c, outcome)
         \/ StopCapture(c)
         \/ \E outcome \in {"ok", "status"}, body \in Bodies :
              UploadRecording(c, outcome, body)
    \/ \E n \in notices : DownloadFallback(n)
    \/ \E r \in StreamIds, size \in {0, 1} :
         \/ Room(r, size, MaxChunks) /\ DataAvailable(r, size)
         \/ Room(r, size, MaxChunks) /\ OnStop(r, size)

Spec == Init /\ [][Next]_vars

\* ------------------------------------------- serialized commands
\* The popup issues a command only when the one before it has returned (one
\* call slot); the stopRecording message carries any destination, a missing
\* one included, and the upload comes to any of its outcomes.
\* What the host, the coordinator and the worker do for call c.
Progress(c) ==
    \/ \E ok \in BOOLEAN : GetMediaStreamId(c, ok)
    \/ CreateOffscreenDocument(c)
    \/ CreateDocument(c)
    \/ StartResponse(c)
    \/ StopResponse(c)
    \/ CloseOffscreenDocument(c)
    \/ CloseDocument(c)
    \/ StartCapture(c)
    \/ \E outcome \in {"ok", "denied", "unsupported"} : GetUserMedia(c, outcome)
    \/ StopCapture(c)
    \/ \E outcome \in UploadOutcomes, body \in Bodies : UploadRecording(c, outcome, body)
    \/ \E r \in StreamIds, size \in {0, 1} :
         Room(r, size, SerialChunks) /\ OnStop(r, size)

NextSerial ==
    \/ CheckStatus
    \/ Tick
    \/ HandleResponse(1)
    \/ \E tabId \in Tabs : StartRecording(1, tabId)
    \/ \E url \in BackendUrls \cup {Missing} : StopRecording(1, url)
    \/ Progress(1)
    \/ \E r \in StreamIds, size \in {0, 1} :
         Room(r, size, SerialChunks) /\ DataAvailable(r, size)
    \/ \E n \in notices : DownloadFallback(n)

\* The host delivers every message, settles every request and fires the
\* events of the recorder.
SpecSerial == Init /\ [][NextSerial]_vars /\ WF_vars(Progress(1))

\* ------------------------------------------------------------- claims
\* Step predicates: call c is issued, call c returns its result.
Issued(c) == calls[c].pc = "free" /\ calls'[c].pc # "free"

Returned(c) == calls[c].pc # "done" /\ calls'[c].pc = "done"

\* A round trip to the offscreen document is outstanding for call c.
RoundTrip(c) == calls[c].pc \in {"startCapture", "getUserMedia", "stopCapture",
                                 "onstop", "upload", "response", "rejected"}

\* C1: of two startRecording calls issued with no stopRecording between
\* them at most one returns success, and the Session keeps the targetId of
\* the first: once one of them has returned success, the other does not
\* return success and recordingTabId stays as it is.
C1_AtMostOneStartSucceeds ==
    [][\A c \in Slots :
         (Returned(c) /\ calls'[c].kind = "start" /\ ~calls'[c].preStop /\ okSinceStop)
         => (~calls'[c].result.success /\ recordingTabId' = recordingTabId)]_vars

\* C2: startRecording processed while the Session is active returns
\* {success:false, error:'Already recording'} at once: the Session, the
\* offscreen document and the worker are untouched and the call is left
\* waiting for no request.
C2_AlreadyActiveRejected ==
    [][\A c \in Slots :
         (Issued(c) /\ calls'[c].kind = "start" /\ isRecording)
         => /\ calls'[c].pc = "done"
            /\ calls'[c].result = AlreadyActive
            /\ UNCHANGED <<session, docExists, worker>>
            /\ \A d \in Slots \ {c} : calls'[d] = calls[d]]_vars

C2_Witness ==
    \E c \in Slots : /\ calls[c].kind = "start"
                     /\ calls[c].pc = "done"
                     /\ calls[c].result = AlreadyActive
                     /\ isRecording
                     /\ recordingTabId # calls[c].tabId

\* C3: a stopRecording call that passed the NotActive check leaves the
\* Session Idle and the badge cleared when it returns, whatever came back
\* from stopCapture: a success, a failure, or a rejected sendMessage.
C3_IdleAfterStop ==
    [][\A c \in Slots :
         (Returned(c) /\ calls[c].kind = "stop")
         => (~isRecording' /\ recordingTabId' = Null /\ startTime' = Null
             /\ badgeText' = "")]_vars

\* The case of C3 in which the sendMessage of stopCapture rejected and the
\* call returns from the catch block of lines 97-100.
C3_IdleAfterSendFault ==
    [][\A c \in Slots :
         (Returned(c) /\ calls[c].kind = "stop" /\ calls[c].pc = "rejected")
         => (~isRecording' /\ recordingTabId' = Null /\ startTime' = Null
             /\ badgeText' = "")]_vars

\* C4: in every state recordingTabId and startTime are non-null exactly when
\* isRecording is true.
C4_SessionFieldsIffRecording ==
    /\ isRecording => (recordingTabId # Null /\ startTime # Null)
    /\ ~isRecording => (recordingTabId = Null /\ startTime = Null)

C4_Witness ==
    /\ isRecording
    /\ recordingTabId = 2
    /\ startTime = StartClock + TickMs
    /\ \E c \in Slots : calls[c].kind = "stop" /\ calls[c].pc = "done"

\* C5: a startRecording call returns success exactly when its return step
\* moved the Session from Idle to Recording with recordingTabId the
\* requested tab, startTime the current time, and the badge set.
C5_SuccessIffSessionStarted ==
    [][\A c \in Slots :
         (Returned(c) /\ calls'[c].kind = "start")
         => (calls'[c].result.success
             <=> (/\ ~isRecording
                  /\ isRecording'
                  /\ recordingTabId' = calls'[c].tabId
                  /\ startTime' = now
                  /\ badgeText' = "REC"))]_vars

\* C6: when getMediaStreamId, createDocument or the sendMessage of
\* startCapture faults, or the worker answers with a failure, startRecording
\* changes none of the Session fields or the badge, the Session is Idle when
\* it returns, and the result has success=false and an error.
C6_FailedStartLeavesIdle ==
    [][\A c \in Slots :
         (/\ Returned(c)
          /\ calls[c].kind = "start"
          /\ \/ calls[c].pc \in {"getStreamId", "createDocument", "rejected"}
             \/ calls[c].pc = "response" /\ ~calls[c].resp.success)
         => (/\ UNCHANGED session
             /\ ~isRecording'
             /\ ~calls'[c].result.success
             /\ calls'[c].result.error # "")]_vars

\* C7: stopRecording processed while the Session is Idle returns
\* {success:false, error:'Not recording'} at once: no stopCapture is sent and
\* the Session, the badge, the offscreen document and the worker are
\* untouched.
C7_NotActiveRejected ==
    [][\A c \in Slots :
         (Issued(c) /\ calls'[c].kind = "stop" /\ ~isRecording)
         => /\ calls'[c].pc = "done"
            /\ calls'[c].result = NotActive
            /\ UNCHANGED <<session, docExists, worker>>
            /\ \A d \in Slots \ {c} : calls'[d].pc = calls[d].pc]_vars

C7_Witness ==
    \E c \in Slots : /\ calls[c].kind = "stop"
                     /\ calls[c].pc = "done"
                     /\ calls[c].result = NotActive
                     /\ ~isRecording

\* C8: when a stopRecording call that passed the NotActive check returns, no
\* offscreen document exists; and closeOffscreenDocument does not fault when
\* the document is already gone.
C8_NoDocumentAfterStop ==
    [][\A c \in Slots :
         (Returned(c) /\ calls[c].kind = "stop")
         => /\ ~docExists'
            /\ ~docExists => calls'[c].result.error # "No current offscreen document"]_vars

\* C9: the result of a stopRecording call that passed the NotActive check is
\* the response the worker gave to stopCapture, also when closeDocument
\* faults afterwards.
C9_WorkerResultVerbatim ==
    [][\A c \in Slots :
         (Returned(c) /\ calls[c].kind = "stop" /\ calls[c].resp.defined)
         => calls'[c].result = calls[c].resp]_vars

\* C10: while the round trip of a startRecording is outstanding getStatus
\* reports isRecording=false and elapsed=0, while the round trip of a
\* stopRecording is outstanding it reports isRecording=true, and what it
\* reports is never a partly updated Session.
C10_StatusDuringRoundTrip ==
    /\ (\E c \in Slots : calls[c].kind = "start" /\ RoundTrip(c))
         => (~GetStatus.isRecording /\ GetStatus.elapsed = 0)
    /\ (\E c \in Slots : calls[c].kind = "stop" /\ RoundTrip(c))
         => GetStatus.isRecording
    /\ GetStatus.isRecording
         <=> (GetStatus.recordingTabId # Null /\ GetStatus.startTime # Null)

\* C11: getStatus reports elapsed = 0 while the Session is Idle; while it is
\* Recording, elapsed is the floor of (now - startTime) / 1000, whatever the
\* start time and the current time; and as long as the Session stays
\* Recording, elapsed never decreases.
C11_ElapsedFloorMonotonic ==
    /\ [](~isRecording => GetStatus.elapsed = 0)
    /\ [](isRecording =>
            /\ GetStatus.elapsed * MsPerSecond <= now - startTime
            /\ now - startTime < (GetStatus.elapsed + 1) * MsPerSecond)
    /\ [][(isRecording /\ isRecording') => GetStatus'.elapsed >= GetStatus.elapsed]_vars

\* C12: every startRecording and every stopRecording call in flight
\* eventually returns a result to its caller, whatever destination the
\* stopRecording message carries (none included) and however the upload
\* ends, when the host delivers the messages and fires the stop event.
C12_EveryCallReturns ==
    \A c \in Slots : (calls[c].pc \notin {"free", "done"}) ~> (calls[c].pc = "done")

\* The upload step of call c fails in this step: the fetch ends in a
\* non-success status, a network fault or a body that is not JSON, or the
\* upload routine throws on a destination that is missing.
UploadFails(c) ==
    \/ \E outcome \in UploadOutcomes \ {"ok"}, body \in Bodies :
         UploadRecording(c, outcome, body)
    \/ /\ calls[c].pc = "onstop"
       /\ calls[c].backendUrl = Missing
       /\ calls'[c].pc \notin {"onstop", "rejected"}

\* C13: when the upload step of a stopCapture fails (network fault,
\* non-success status, local exception anywhere in the upload routine), the
\* same step produces the result {success:false, error, savedLocally:true}
\* and sends exactly one downloadFallback notification with a non-empty
\* local reference and a filename, before the result is returned.
C13_UploadFailureFallsBack ==
    [][\A c \in Slots :
         UploadFails(c)
         => /\ calls'[c].pc = "response"
            /\ calls'[c].resp.defined
            /\ ~calls'[c].resp.success
            /\ calls'[c].resp.error # ""
            /\ calls'[c].resp.savedLocally
            /\ calls[c].fallback = 0
            /\ calls'[c].fallback = 1
            /\ \E n \in notices' : /\ n.action = "downloadFallback"
                                   /\ n.url # ""
                                   /\ n.filename # ""]_vars

\* C14: the Artifact of a stop that answers savedLocally=true is not lost:
\* when its downloadFallback notification is delivered, the context that
\* receives it saves the local reference it carries, and the offscreen
\* document that owns the reference still exists at that moment.
C14_FallbackSaved ==
    [][\A n \in notices :
         DownloadFallback(n) => (n.url \in downloads' /\ docExists)]_vars

\* C15: whenever the upload transfer completes with a success status, the
\* result of stopCapture has success=true and contains every field of the
\* server's response body, whatever body the endpoint returns.
C15_SuccessWithEveryField ==
    [][\A c \in Slots, body \in Bodies :
         /\ UploadRecording(c, "ok", body)
            => /\ calls'[c].resp.success
               /\ \A f \in DOMAIN body : calls'[c].resp[f] = body[f]
         /\ UploadRecording(c, "json", body) => calls'[c].resp.success]_vars

\* C15 amended: whenever the upload transfer completes with a success status
\* and a JSON body, the result of stopCapture contains every field of the
\* body, and has success=true unless the body has a success field of its own.
C15_EveryFieldBodyWins ==
    [][\A c \in Slots, body \in Bodies :
         UploadRecording(c, "ok", body)
         => /\ \A f \in DOMAIN body : calls'[c].resp[f] = body[f]
            /\ "success" \notin DOMAIN body => calls'[c].resp.success]_vars

C15_Witness ==
    \E c \in Slots :
       /\ calls[c].kind = "stop"
       /\ calls[c].pc = "response"
       /\ "message" \in DOMAIN calls[c].resp
       /\ calls[c].resp.message = "queued"
       /\ ~calls[c].resp.success

\* The onstop handler of recorder r runs in this step.
Finalized(r) == streams[r].onstop # 0 /\ streams'[r].onstop = 0 /\ docExists'

\* C16: the Artifact stopCapture assembles is the concatenation, in the
\* order of production, of everything the recorder being stopped produced
\* since its startCapture, the chunk flushed by the stop included; with
\* nothing produced it is empty, and it is handed to the upload step with no
\* error reported.
C16_ArtifactIsAllChunks ==
    [][\A r \in StreamIds :
         Finalized(r)
         => LET c == streams[r].onstop
            IN /\ calls'[c].blob = streams'[r].produced
               /\ calls'[c].pc \in {"upload", "hung"}
               /\ ~calls'[c].resp.defined]_vars

\* C17: in every stopCapture that passes the check of line 62 the tracks of
\* the device being recorded are stopped exactly once; they are stopped in
\* the step that hands the Artifact to the upload, so before the upload is
\* attempted, and no result or fallback notification exists before then.
C17_TracksStoppedOnceBeforeUpload ==
    /\ [][\A r \in StreamIds :
            Finalized(r) => /\ streams[r].live
                            /\ ~streams'[r].live
                            /\ streams'[r].stops = 1]_vars
    /\ [](\A c \in Slots :
            /\ calls[c].pc \in {"upload", "hung"}
               => /\ ~streams[calls[c].rec].live
                  /\ streams[calls[c].rec].stops = 1
            /\ calls[c].pc = "onstop"
               => /\ ~calls[c].resp.defined
                  /\ calls[c].fallback = 0)

\* C18: once a stopCapture that passed the check of line 62 has returned
\* (its response is on the way to the coordinator) the worker has discarded
\* the Capture Handle: it holds no live device and recordedChunks is empty.
C18_HandleDiscarded ==
    \A c \in Slots :
       (calls[c].kind = "stop" /\ calls[c].pc = "response" /\ calls[c].rec # 0 /\ docExists)
       => /\ recordedChunks = <<>>
          /\ mediaStream = Null \/ ~streams[mediaStream].live

\* The worker is Capturing: it has a recorder and the recorder is recording.
Capturing == mediaRecorder # Null /\ streams[mediaRecorder].rec = "recording"

\* C19: a stopCapture received while the worker is not Capturing (never
\* started, start failed, already finalizing, already stopped) answers
\* {success:false, error:'No active recording'}, assembles no Artifact,
\* attempts no upload, sends no fallback notification and leaves the
\* worker's state as it was.
C19_NotCapturingRejected ==
    [][\A c \in Slots :
         (StopCapture(c) /\ ~Capturing)
         => /\ calls'[c].pc = "response"
            /\ calls'[c].resp = NotCapturing
            /\ calls'[c].blob = <<>>
            /\ calls'[c].fallback = 0
            /\ UNCHANGED <<worker, notices>>]_vars

\* A stopCapture was refused while another one is finalizing the capture.
C19_Witness ==
    \E c, d \in Slots :
       /\ calls[c].kind = "stop"
       /\ calls[c].pc = "response"
       /\ calls[c].resp = NotCapturing
       /\ calls[d].kind = "stop"
       /\ calls[d].pc = "onstop"

\* C20: however startRecording calls interleave, createOffscreenDocument
\* sends chrome.offscreen.createDocument only when no offscreen document
\* exists and no other createDocument request is pending.
C20_CreateOnlyWhenAbsent ==
    [][\A c \in Slots :
         (calls[c].pc # "createDocument" /\ calls'[c].pc = "createDocument")
         => /\ ~docExists
            /\ \A d \in Slots \ {c} : calls[d].pc # "createDocument"]_vars

\* No startRecording or stopRecording call is in flight.
Quiet == \A c \in Slots : calls[c].pc \in {"free", "done"}

\* C21: coordinator and worker agree on whether a capture is in progress:
\* in every state with no startRecording or stopRecording call in flight,
\* isRecording is true exactly when an offscreen document exists and its
\* worker is Capturing.
C21_SessionIffCapturing ==
    Quiet => (isRecording <=> (docExists /\ Capturing))

\* C22: the worker never holds an orphaned capture device: every stream
\* that was acquired and whose tracks are not stopped is the stream of the
\* current capture handle (mediaStream, with mediaRecorder recording it).
C22_NoOrphanedStream ==
    \A s \in StreamIds :
       (streams[s].acquired /\ streams[s].live)
       => (mediaStream = s /\ mediaRecorder = s)

\* C23: the offscreen document is never destroyed while its worker is
\* finalizing a capture or has an upload outstanding: whenever the document
\* is closed, no stopCapture is between mediaRecorder.stop() and the return
\* of uploadRecording.
C23_NoTeardownDuringUpload ==
    [][(docExists /\ ~docExists')
       => \A c \in Slots : calls[c].pc \notin {"onstop", "upload", "hung"}]_vars

\* The click handler of call c handles the response of its command.
Handled(c) == calls[c].pc = "done" /\ calls'[c].pc = "free" /\ ~calls[c].orphan

\* C24: once the popup has handled the response of a command, what it shows
\* agrees with the coordinator: after a stopRecording response it shows the
\* idle state and getStatus reports isRecording=false; after a successful
\* startRecording response it shows the recording state and getStatus
\* reports isRecording=true.
C24_PopupAgreesWithStatus ==
    [][\A c \in Slots :
         Handled(c)
         => /\ calls[c].kind = "stop"
               => (shown' = "idle" /\ ~GetStatus'.isRecording)
            /\ (calls[c].kind = "start" /\ calls[c].result.success)
               => (shown' = "recording" /\ GetStatus'.isRecording)]_vars

====
